---- MODULE Spec2Model ----
(***************************************************************************)
(* Model of src/main.py: the scan -> classify -> load -> document -> new   *)
(* endpoint pipeline of main(), followed by the Flask server of the        *)
(* __main__ block.                                                         *)
(*                                                                         *)
(* A Python str is a sequence of one-character strings, so that split,     *)
(* replace, endswith, repr, len and slicing are computed as Python         *)
(* computes them.  The filesystem is a function from absolute, normalised  *)
(* paths to nodes.                                                         *)
(***************************************************************************)
EXTENDS Integers, Sequences, FiniteSets, TLC

\* ------------------------------------------------------------------ str

\* s[i:] for a 1-based i
Drop(s, i) == SubSeq(s, i, Len(s))

\* s[:n]
Take(s, n) == SubSeq(s, 1, n)

\* whether pat occurs in s at (1-based) position i
OccursAt(s, i, pat) ==
    /\ i >= 1
    /\ i + Len(pat) - 1 <= Len(s)
    /\ \A k \in 1..Len(pat) : s[i + k - 1] = pat[k]

\* str.find: the least position where pat occurs in s, 0 when there is none
Find(s, pat) ==
    LET hits == {i \in 1..Len(s) : OccursAt(s, i, pat)}
    IN IF hits = {} THEN 0 ELSE CHOOSE i \in hits : \A j \in hits : i <= j

\* pat in s
Contains(s, pat) == Find(s, pat) # 0

\* str.endswith
EndsWith(s, suffix) ==
    /\ Len(suffix) <= Len(s)
    /\ OccursAt(s, Len(s) - Len(suffix) + 1, suffix)

\* str.startswith
StartsWith(s, prefix) == OccursAt(s, 1, prefix)

\* str.replace(old, new) for a non-empty old: every non-overlapping
\* occurrence, leftmost first; the text put in is not scanned again
RECURSIVE Replace(_, _, _)
Replace(s, old, new) ==
    LET i == Find(s, old)
    IN IF i = 0 THEN s
       ELSE Take(s, i - 1) \o new \o Replace(Drop(s, i + Len(old)), old, new)

\* str.split(sep) for a one-character sep: "" splits to [""]
RECURSIVE Split(_, _)
Split(s, sep) ==
    LET i == Find(s, sep)
    IN IF i = 0 THEN <<s>>
       ELSE <<Take(s, i - 1)>> \o Split(Drop(s, i + Len(sep)), sep)

\* sep.join(parts)
RECURSIVE Join(_, _)
Join(parts, sep) ==
    IF Len(parts) = 0 THEN <<>>
    ELSE IF Len(parts) = 1 THEN parts[1]
    ELSE parts[1] \o sep \o Join(Tail(parts), sep)

\* the concatenation of a sequence of sequences
RECURSIVE Flatten(_)
Flatten(parts) ==
    IF Len(parts) = 0 THEN <<>> ELSE parts[1] \o Flatten(Tail(parts))

\* repr(str): single quotes unless the string holds ' and no "; backslash,
\* the chosen quote and newline are escaped
ReprStr(s) ==
    LET q == IF Contains(s, <<"'">>) /\ ~Contains(s, <<"\"">>) THEN "\"" ELSE "'"
        Esc(c) == IF c = "\\" THEN <<"\\","\\">>
                  ELSE IF c = "\n" THEN <<"\\","n">>
                  ELSE IF c = q THEN <<"\\", q>>
                  ELSE <<c>>
    IN <<q>> \o Flatten([i \in 1..Len(s) |-> Esc(s[i])]) \o <<q>>

\* str(list of str)
StrList(l) == <<"[">> \o Join([i \in 1..Len(l) |-> ReprStr(l[i])], <<","," ">>) \o <<"]">>

\* str(dict of str to str): d is the dict as its items in insertion order
StrDict(d) ==
    <<"{">> \o Join([i \in 1..Len(d) |-> ReprStr(d[i][1]) \o <<":"," ">> \o ReprStr(d[i][2])], <<","," ">>) \o <<"}">>

\* d[key] = value: a new key goes last, a known key keeps its place
DictSet(d, key, value) ==
    IF \E i \in 1..Len(d) : d[i][1] = key
    THEN [i \in 1..Len(d) |-> IF d[i][1] = key THEN <<key, value>> ELSE d[i]]
    ELSE Append(d, <<key, value>>)

DictKeys(d) == {d[i][1] : i \in 1..Len(d)}


\* ------------------------------------------------------------ constants

SWAGGER_FILE_FILEPATH == <<"a","p","i","_","d","o","c","u","m","e","n","t","a","t","i","o","n","_","s","w","a","g","g","e","r",".","y","a","m","l">>

\* The prompt templates, each cut down to the lines that hold its
\* placeholders: the text left out holds no '<' and so no placeholder.
PROMPT_IDENTIFY_API == <<"f","i","l","e"," ","p","a","t","h","s",":","\n","\n","<","P","A","T","H","S",">","\n","\n","O","n","l","y"," ","r","e","t","u","r","n">>

PROMPT_GENERATE_DOCUMENTATION == <<"f","i","l","e"," ","c","o","n","t","e","n","t","s",":","\n","<","F","I","L","E"," ","C","O","N","T","E","N","T","S",">","\n">>

PROMPT_GENERATE_NEW_ENDPOINT ==
    <<"-"," ","P","r","o","j","e","c","t"," ","s","t","r","u","c","t","u","r","e",":"," ","<","P","A","T","H","S",">","\n","-"," ","F","u","n","c","t","i","o","n","a","l","i","t","y"," ","d","e","s","c","r","i","p","t","i","o","n",":"," ","<","D","E","S","C","R","I","P","T","I","O","N",">","\n","-"," ","P","r","o","j","e","c","t"," ","f","i","l","e"," ","c","o","n","t","e","n","t","s",":"," ","<","F","I","L","E"," ","C","O","N","T","E","N","T","S",">","\n">>

new_endpoint_description ==
    <<"I"," ","w","a","n","t"," ","t","o"," ","c","r","e","a","t","e"," ","a"," ","n","e","w"," ","e","n","d","p","o","i","n","t"," ","w","h","i","c","h"," ","d","e","l","e","t","e","s"," ","u","s","e","r"," ","a","g","e","n","t","s"," ","f","r","o","m"," ","a","l","l"," ","d","e","v","i","c","e","s">>

PATHS == <<"<","P","A","T","H","S",">">>

FILE_CONTENTS == <<"<","F","I","L","E"," ","C","O","N","T","E","N","T","S",">">>

DESCRIPTION == <<"<","D","E","S","C","R","I","P","T","I","O","N",">">>

\* os.linesep of the platform the script runs on (POSIX)
os_linesep == <<"\n">>

\* ----------------------------------------------------------- filesystem

Absent == [kind |-> "absent", readable |-> FALSE, entries |-> <<>>, content |-> <<>>]

\* a directory and the names scandir lists in it, in listing order
Dir(entries, readable) ==
    [kind |-> "dir", readable |-> readable, entries |-> entries, content |-> <<>>]

\* a regular file
File(content, readable) ==
    [kind |-> "file", readable |-> readable, entries |-> <<>>, content |-> content]

\* a symbolic link whose target does not exist
DanglingLink == [kind |-> "symlink", readable |-> FALSE, entries |-> <<>>, content |-> <<>>]

\* a path without its trailing separator
NormPath(path) ==
    IF Len(path) > 1 /\ path[Len(path)] = "/" THEN Take(path, Len(path) - 1) ELSE path

\* the node a path names
Lookup(f, path) == IF NormPath(path) \in DOMAIN f THEN f[NormPath(path)] ELSE Absent

\* os.path.join(a, b) on POSIX
os_path_join(a, b) ==
    IF StartsWith(b, <<"/">>) THEN b
    ELSE IF Len(a) = 0 \/ a[Len(a)] = "/" THEN a \o b
    ELSE a \o <<"/">> \o b

\* os.walk that stops at the top directory
os_walk_top_only(f, top) ==
    LET node == Lookup(f, top)
        NotDir(n) == Lookup(f, os_path_join(top, n)).kind # "dir"
    IN IF node.kind # "dir" \/ ~node.readable THEN <<>>
       ELSE <<[root |-> top, dirs |-> <<>>, files |-> SelectSeq(node.entries, NotDir)]>>

\* os.walk(top): the (root, dirs, files) triples, top-down.  onerror is None,
\* so a scandir that fails (top missing, not a directory or not readable)
\* is ignored and yields nothing; symbolic links are not followed, and every
\* entry that is not a directory is listed in files.
RECURSIVE os_walk(_, _)
os_walk(f, top) ==
    LET node == Lookup(f, top)
        IsDir(n) == Lookup(f, os_path_join(top, n)).kind = "dir"
        NotDir(n) == ~IsDir(n)
        dirs == SelectSeq(node.entries, IsDir)
        nondirs == SelectSeq(node.entries, NotDir)
    IN IF node.kind # "dir" \/ ~node.readable THEN <<>>
       ELSE <<[root |-> top, dirs |-> dirs, files |-> nondirs]>>
            \o Flatten([i \in 1..Len(dirs) |-> os_walk(f, os_path_join(top, dirs[i]))])

\* whether os.walk(top) raises FileNotFoundError: never, its own handler
\* swallows the error of the scandir
os_walk_raises(f, top) == FALSE

\* get_filepaths_from_path that takes an empty result for a missing path
get_filepaths_from_path_empty_raises(f, project_path) ==
    LET w == os_walk(f, project_path)
        paths == Flatten([i \in 1..Len(w) |->
                    [j \in 1..Len(w[i].files) |-> os_path_join(w[i].root, w[i].files[j])]])
    IN IF paths = <<>>
       THEN [raised |-> TRUE, paths |-> <<>>,
             errors |-> <<[fn |-> "get_filepaths_from_path", about |-> project_path]>>]
       ELSE [raised |-> FALSE, paths |-> paths, errors |-> <<>>]

\* get_filepaths_from_path: the paths, or the FileNotFoundError re-raised
\* after logging
get_filepaths_from_path(f, project_path) ==
    IF os_walk_raises(f, project_path)
    THEN [raised |-> TRUE, paths |-> <<>>,
          errors |-> <<[fn |-> "get_filepaths_from_path", about |-> project_path]>>]
    ELSE LET w == os_walk(f, project_path)
         IN [raised |-> FALSE,
             paths |-> Flatten([i \in 1..Len(w) |->
                          [j \in 1..Len(w[i].files) |-> os_path_join(w[i].root, w[i].files[j])]]),
             errors |-> <<>>]

\* open(filepath, "r") followed by f.read()
OpenRead(f, filepath) ==
    LET node == Lookup(f, filepath)
    IN IF node.kind \in {"absent", "symlink"} THEN [exc |-> "FileNotFoundError", text |-> <<>>]
       ELSE IF node.kind = "dir" THEN [exc |-> "IsADirectoryError", text |-> <<>>]
       ELSE IF ~node.readable THEN [exc |-> "PermissionError", text |-> <<>>]
       ELSE [exc |-> "none", text |-> node.content]

\* file.write(text) on a file opened with "w": text mode writes os.linesep for
\* every newline
TextWrite(text) == Replace(text, <<"\n">>, os_linesep)

\* the file opened with "a": the text goes after what the file held
WriteFile_append(f, filename, text) ==
    [p \in DOMAIN f \cup {filename} |->
        IF p = filename
        THEN File((IF filename \in DOMAIN f THEN f[filename].content ELSE <<>>) \o TextWrite(text), TRUE)
        ELSE f[p]]

\* the filesystem after open(filename, "w") and file.write(text)
WriteFile(f, filename, text) ==
    [p \in DOMAIN f \cup {filename} |->
        IF p = filename THEN File(TextWrite(text), TRUE) ELSE f[p]]

\* ------------------------------------------------------------- pipeline

\* generate_response whose handler logs and does not raise again
generate_response_swallowed(outcome) ==
    IF outcome.ok
    THEN [raised |-> FALSE, text |-> outcome.text, errors |-> <<>>]
    ELSE [raised |-> FALSE, text |-> <<>>,
          errors |-> <<[fn |-> "generate_response", about |-> <<>>]>>]

\* generate_response: the text of the service's answer, or its exception
\* logged and re-raised
generate_response(outcome) ==
    IF outcome.ok
    THEN [raised |-> FALSE, text |-> outcome.text, errors |-> <<>>]
    ELSE [raised |-> TRUE, text |-> <<>>,
          errors |-> <<[fn |-> "generate_response", about |-> <<>>]>>]

\* the loop body without its last handler: only FileNotFoundError is caught
LoadOne_no_catch_all(f, contents, filepath) ==
    IF EndsWith(filepath, <<".","p","y">>)
    THEN LET r == OpenRead(f, filepath)
         IN IF r.exc = "none"
            THEN [raised |-> FALSE, contents |-> DictSet(contents, filepath, r.text), errors |-> <<>>]
            ELSE IF r.exc = "FileNotFoundError"
            THEN [raised |-> FALSE, contents |-> contents,
                  errors |-> <<[fn |-> "main", about |-> filepath]>>]
            ELSE [raised |-> TRUE, contents |-> contents, errors |-> <<>>]
    ELSE [raised |-> FALSE, contents |-> contents,
          errors |-> <<[fn |-> "main", about |-> filepath]>>]

\* the loop body without the check of the extension
LoadOne_any_extension(f, contents, filepath) ==
    LET r == OpenRead(f, filepath)
    IN IF r.exc = "none"
       THEN [raised |-> FALSE, contents |-> DictSet(contents, filepath, r.text), errors |-> <<>>]
       ELSE [raised |-> FALSE, contents |-> contents,
             errors |-> <<[fn |-> "main", about |-> filepath]>>]

\* one pass of the body of the content-loading loop
LoadOne(f, contents, filepath) ==
    IF EndsWith(filepath, <<".","p","y">>)
    THEN LET r == OpenRead(f, filepath)
         IN IF r.exc = "none"
            THEN [raised |-> FALSE, contents |-> DictSet(contents, filepath, r.text), errors |-> <<>>]
            ELSE [raised |-> FALSE, contents |-> contents,
                  errors |-> <<[fn |-> "main", about |-> filepath]>>]
    ELSE [raised |-> FALSE, contents |-> contents,
          errors |-> <<[fn |-> "main", about |-> filepath]>>]

\* the prompt of the classification call
IdentifyPrompt(paths) == Replace(PROMPT_IDENTIFY_API, PATHS, StrList(paths))

\* the prompt of the documentation call
DocumentationPrompt(contents) ==
    Replace(PROMPT_GENERATE_DOCUMENTATION, FILE_CONTENTS, StrDict(contents))

\* the first half of str(file_contents)
FirstHalf(contents) == Take(StrDict(contents), Len(StrDict(contents)) \div 2)

\* the prompt of the new-endpoint call: three replace calls, one after the other
NewEndpointPrompt(paths, contents) ==
    Replace(Replace(Replace(PROMPT_GENERATE_NEW_ENDPOINT, PATHS, StrList(paths)),
                    FILE_CONTENTS, FirstHalf(contents)),
            DESCRIPTION, new_endpoint_description)

\* app.run in a finally clause: reached however main() ends
AppRunReached_finally(at) == at \in {"main_returned", "aborted"}

\* what the script does once main() is over: app.run when it returned
AppRunReached(at) == at = "main_returned"

\* ---------------------------------------------------------------- bounds

\* the most lines an answer of the classification call holds
MaxLines == 3

\* ---------------------------------------------------------------- inputs

AppPy == <<"/","p","r","o","j","/","a","p","p",".","p","y">>

UtilPy == <<"/","p","r","o","j","/","u","t","i","l",".","p","y">>

ReadmeMd == <<"/","p","r","o","j","/","r","e","a","d","m","e",".","m","d">>

MissingPy == <<"/","p","r","o","j","/","m","i","s","s","i","n","g",".","p","y">>

LinkPy == <<"/","p","r","o","j","/","l","i","n","k",".","p","y">>

ApiDir == <<"/","p","r","o","j","/","a","p","i">>

ApiUsersPy == <<"/","p","r","o","j","/","a","p","i","/","u","s","e","r","s",".","p","y">>

ProjectDir == <<"/","p","r","o","j">>

AppText == <<"@","a","p","p",".","g","e","t","(","'","/","a","'",")","\n">>

UtilText == <<"i","m","p","o","r","t"," ","o","s","\n">>

UsersText == <<"#"," ","\"","u","s","e","r","s","\"","\n">>

\* a source file that itself holds a placeholder of the prompt templates
TemplateText == <<"d"," ","="," ","'","<","D","E","S","C","R","I","P","T","I","O","N",">","'","\n","@","a","p","p",".","r","o","u","t","e","(","'","/","u","s","e","r","s","'",")","\n","d","e","f"," ","u","s","e","r","s","(",")",":"," ","p","a","s","s","\n">>

OldArtifact == <<"o","l","d">>

\* no /proj at all
TreeMissing == SWAGGER_FILE_FILEPATH :> File(OldArtifact, TRUE)

\* /proj exists and holds nothing
TreeEmpty == ProjectDir :> Dir(<<>>, TRUE)

\* app.py, util.py and readme.md in /proj
TreeFlat ==
    ProjectDir :> Dir(<<<<"a","p","p",".","p","y">>, <<"u","t","i","l",".","p","y">>, <<"r","e","a","d","m","e",".","m","d">>>>, TRUE)
    @@ AppPy :> File(AppText, TRUE) @@ UtilPy :> File(UtilText, TRUE)
    @@ ReadmeMd :> File(<<"#"," ","r">>, TRUE)

\* a sub-directory, listed first
TreeNested ==
    ProjectDir :> Dir(<<<<"a","p","i">>, <<"a","p","p",".","p","y">>, <<"r","e","a","d","m","e",".","m","d">>>>, TRUE)
    @@ ApiDir :> Dir(<<<<"u","s","e","r","s",".","p","y">>>>, TRUE) @@ ApiUsersPy :> File(UsersText, TRUE)
    @@ AppPy :> File(AppText, TRUE) @@ ReadmeMd :> File(<<"#"," ","r">>, TRUE)
    @@ SWAGGER_FILE_FILEPATH :> File(OldArtifact, TRUE)

\* the sub-directory cannot be listed
TreeLockedDir ==
    ProjectDir :> Dir(<<<<"a","p","p",".","p","y">>, <<"a","p","i">>>>, TRUE)
    @@ ApiDir :> Dir(<<<<"u","s","e","r","s",".","p","y">>>>, FALSE) @@ ApiUsersPy :> File(UsersText, TRUE)
    @@ AppPy :> File(AppText, TRUE)

\* a dangling symbolic link beside the sources
TreeLink ==
    ProjectDir :> Dir(<<<<"l","i","n","k",".","p","y">>, <<"a","p","p",".","p","y">>>>, TRUE)
    @@ LinkPy :> DanglingLink @@ AppPy :> File(AppText, TRUE)

\* a source file that cannot be read
TreeDenied ==
    ProjectDir :> Dir(<<<<"a","p","p",".","p","y">>, <<"r","e","a","d","m","e",".","m","d">>>>, TRUE)
    @@ AppPy :> File(AppText, FALSE) @@ ReadmeMd :> File(<<"#"," ","r">>, TRUE)

\* /proj itself cannot be listed
TreeLockedRoot ==
    ProjectDir :> Dir(<<<<"a","p","p",".","p","y">>>>, FALSE) @@ AppPy :> File(AppText, TRUE)

\* a source file holding a placeholder
TreeTemplate ==
    ProjectDir :> Dir(<<<<"a","p","p",".","p","y">>, <<"u","t","i","l",".","p","y">>>>, TRUE)
    @@ AppPy :> File(TemplateText, TRUE) @@ UtilPy :> File(UtilText, TRUE)

Trees ==
    {TreeMissing, TreeEmpty, TreeFlat, TreeNested, TreeLockedDir, TreeLink,
     TreeDenied, TreeLockedRoot, TreeTemplate}

\* the command lines: the required argument given or not
Argvs == {<<>>, <<<<"-","-","p","r","o","j","e","c","t","-","p","a","t","h">>, ProjectDir>>, <<<<"-","-","p","r","o","j","e","c","t","-","p","a","t","h">>, <<"/","p","r","o","j","/">>>>}

\* the lines an answer of the classification call is made of
Lines == {AppPy, MissingPy, ReadmeMd, ApiUsersPy}

\* the answers of the classification call: up to MaxLines lines, joined by
\* newlines (none at all is the empty answer)
ClassifyTexts ==
    {Join(ls, <<"\n">>) : ls \in UNION {[1..n -> Lines] : n \in 0..MaxLines}}

\* the answers of the documentation call
DocTexts == {<<"o","p","e","n","a","p","i",":"," ","3",".","0",".","0","\n","p","a","t","h","s",":"," ","{","}","\n">>, <<>>}

\* the answers of the new-endpoint call
EndpointTexts == {<<"d","e","f"," ","d","e","l","e","t","e","(",")",":"," ","p","a","s","s">>}

\* what a call of the service comes to: an answer, or an exception
Outcomes(texts) ==
    {[ok |-> TRUE, text |-> t] : t \in texts} \cup {[ok |-> FALSE, text |-> <<>>]}

\* ----------------------------------------------------------------- state

VARIABLES
    pc,                        \* where the script is
    fs,                        \* the filesystem
    fs0,                       \* the filesystem the script started on
    project_path,              \* args.project_path
    filepaths,                 \* main's filepaths
    identified_api_endpoints,  \* main's identified_api_endpoints
    idx,                       \* the position of the loading loop
    file_contents,             \* main's file_contents, items in insertion order
    generated_api_documentation,
    calls,                     \* the calls of generate_response, in order
    writes,                    \* the files written, in order
    log,                       \* the error lines logged, in order
    served                     \* the last answer of the swagger_yaml route

vars ==
    <<pc, fs, fs0, project_path, filepaths, identified_api_endpoints, idx,
      file_contents, generated_api_documentation, calls, writes, log, served>>

Init ==
    /\ pc = "parse_args"
    /\ fs \in Trees
    /\ fs0 = fs
    /\ project_path = <<>>
    /\ filepaths = <<>>
    /\ identified_api_endpoints = <<>>
    /\ idx = 1
    /\ file_contents = <<>>
    /\ generated_api_documentation = <<>>
    /\ calls = <<>>
    /\ writes = <<>>
    /\ log = <<>>
    /\ served = <<>>

\* parser.parse_args(): --project-path is required
ParseArgs ==
    /\ pc = "parse_args"
    /\ \E argv \in Argvs :
          IF Len(argv) = 2 /\ argv[1] = <<"-","-","p","r","o","j","e","c","t","-","p","a","t","h">>
          THEN /\ project_path' = argv[2]
               /\ pc' = "scan"
          ELSE /\ pc' = "exited"
               /\ UNCHANGED project_path
    /\ UNCHANGED <<fs, fs0, filepaths, identified_api_endpoints, idx, file_contents,
                   generated_api_documentation, calls, writes, log, served>>

\* filepaths = get_filepaths_from_path(args.project_path)
Scan ==
    /\ pc = "scan"
    /\ LET r == get_filepaths_from_path(fs, project_path)
       IN /\ filepaths' = r.paths
          /\ log' = log \o r.errors
          /\ pc' = IF r.raised THEN "aborted" ELSE "classify"
    /\ UNCHANGED <<fs, fs0, project_path, identified_api_endpoints, idx, file_contents,
                   generated_api_documentation, calls, writes, served>>

\* identified_api_endpoints = generate_response(prompt, 1000).split("\n")
Classify ==
    /\ pc = "classify"
    /\ \E outcome \in Outcomes(ClassifyTexts) :
          LET r == generate_response(outcome)
          IN /\ calls' = Append(calls, [kind |-> "identify", prompt |-> IdentifyPrompt(filepaths),
                                        max_len |-> 1000, ok |-> outcome.ok, text |-> r.text])
             /\ log' = log \o r.errors
             /\ IF r.raised
                THEN /\ pc' = "aborted"
                     /\ UNCHANGED identified_api_endpoints
                ELSE /\ pc' = "load"
                     /\ identified_api_endpoints' = Split(r.text, <<"\n">>)
    /\ idx' = 1
    /\ file_contents' = <<>>
    /\ UNCHANGED <<fs, fs0, project_path, filepaths, generated_api_documentation,
                   writes, served>>

\* the content-loading loop: one candidate, or the end of the loop
LoadStep ==
    /\ pc = "load"
    /\ IF idx > Len(identified_api_endpoints)
       THEN /\ pc' = "document"
            /\ UNCHANGED <<idx, file_contents, log>>
       ELSE LET r == LoadOne(fs, file_contents, identified_api_endpoints[idx])
            IN /\ file_contents' = r.contents
               /\ log' = log \o r.errors
               /\ idx' = idx + 1
               /\ pc' = IF r.raised THEN "aborted" ELSE "load"
    /\ UNCHANGED <<fs, fs0, project_path, filepaths, identified_api_endpoints,
                   generated_api_documentation, calls, writes, served>>

\* generated_api_documentation = generate_response(prompt, 10000)
Document ==
    /\ pc = "document"
    /\ \E outcome \in Outcomes(DocTexts) :
          LET r == generate_response(outcome)
          IN /\ calls' = Append(calls, [kind |-> "documentation",
                                        prompt |-> DocumentationPrompt(file_contents),
                                        max_len |-> 10000, ok |-> outcome.ok, text |-> r.text])
             /\ log' = log \o r.errors
             /\ generated_api_documentation' = r.text
             /\ pc' = IF r.raised THEN "aborted" ELSE "write"
    /\ UNCHANGED <<fs, fs0, project_path, filepaths, identified_api_endpoints, idx,
                   file_contents, writes, served>>

\* with open(filename, "w") as file: file.write(generated_api_documentation)
WriteArtifact ==
    /\ pc = "write"
    /\ fs' = WriteFile(fs, SWAGGER_FILE_FILEPATH, generated_api_documentation)
    /\ writes' = Append(writes, SWAGGER_FILE_FILEPATH)
    /\ pc' = "new_endpoint"
    /\ UNCHANGED <<fs0, project_path, filepaths, identified_api_endpoints, idx,
                   file_contents, generated_api_documentation, calls, log, served>>

\* new_api_endpoint_code = generate_response(prompt, 10000)
NewEndpoint ==
    /\ pc = "new_endpoint"
    /\ \E outcome \in Outcomes(EndpointTexts) :
          LET r == generate_response(outcome)
          IN /\ calls' = Append(calls, [kind |-> "new_endpoint",
                                        prompt |-> NewEndpointPrompt(filepaths, file_contents),
                                        max_len |-> 10000, ok |-> outcome.ok, text |-> r.text])
             /\ log' = log \o r.errors
             /\ pc' = IF r.raised THEN "aborted" ELSE "main_returned"
    /\ UNCHANGED <<fs, fs0, project_path, filepaths, identified_api_endpoints, idx,
                   file_contents, generated_api_documentation, writes, served>>

\* app.run(host="0.0.0.0", port=5000, debug=True)
AppRun ==
    /\ AppRunReached(pc)
    /\ pc' = "serving"
    /\ UNCHANGED <<fs, fs0, project_path, filepaths, identified_api_endpoints, idx,
                   file_contents, generated_api_documentation, calls, writes, log, served>>

\* the swagger_yaml route: send_file(SWAGGER_FILE_FILEPATH)
ServeSwagger ==
    /\ pc = "serving"
    /\ served' = <<Lookup(fs, SWAGGER_FILE_FILEPATH).content>>
    /\ UNCHANGED <<pc, fs, fs0, project_path, filepaths, identified_api_endpoints, idx,
                   file_contents, generated_api_documentation, calls, writes, log>>

Next ==
    \/ ParseArgs
    \/ Scan
    \/ Classify
    \/ LoadStep
    \/ Document
    \/ WriteArtifact
    \/ NewEndpoint
    \/ AppRun
    \/ ServeSwagger

Spec == Init /\ [][Next]_vars

\* ---------------------------------------------------------------- claims

\* the calls of one kind made so far
CallsOf(kind) == {i \in 1..Len(calls) : calls[i].kind = kind}

\* an error line of generate_response has been logged
ServiceErrorLogged == \E i \in 1..Len(log) : log[i].fn = "generate_response"

\* the scan is over
Scanned == pc \notin {"parse_args", "exited", "scan"}

\* the content-loading loop is over
Loaded ==
    \/ pc \in {"document", "write", "new_endpoint", "main_returned", "serving"}
    \/ pc = "aborted" /\ Len(calls) >= 2

\* the artifact has been written by this run
Written == pc \in {"new_endpoint", "main_returned", "serving"} \/ Len(calls) = 3

\* d is a directory above p
IsAncestor(d, p) == Len(d) < Len(p) /\ StartsWith(p, d) /\ p[Len(d) + 1] = "/"

\* the root of the scan, as the filesystem names it
Root == NormPath(project_path)

\* a candidate the loader can read: a regular, readable file
Readable(p) == Lookup(fs0, p).kind = "file" /\ Lookup(fs0, p).readable

\* a candidate the loader keeps
Kept(p) == EndsWith(p, <<".","p","y">>) /\ Readable(p)

\* C1 as stated: whichever text-generation call fails, the run ends with a
\* reported error and has written no artifact file.
C1_NoArtifactAfterFailedCall ==
    \A i \in 1..Len(calls) :
        ~calls[i].ok => pc = "aborted" /\ ServiceErrorLogged /\ writes = <<>> /\ fs = fs0

\* C1 amended: a failed call ends the run with a reported error; no artifact
\* file has been written when the classification or the documentation call
\* failed, and the artifact file is already written when the new-endpoint
\* call fails.
C1_FailedCallAborts ==
    \A i \in 1..Len(calls) :
        ~calls[i].ok =>
            /\ pc = "aborted"
            /\ ServiceErrorLogged
            /\ calls[i].kind \in {"identify", "documentation"} => writes = <<>> /\ fs = fs0
            /\ calls[i].kind = "new_endpoint" => writes = <<SWAGGER_FILE_FILEPATH>>

C1_Witness ==
    /\ Len(calls) = 2
    /\ ~calls[2].ok
    /\ calls[2].kind = "documentation"
    /\ file_contents # <<>>

\* C2: with a root that does not exist or cannot be read, the scan fails and
\* the run aborts; no classification call is ever made.
C2_MissingRootAborts ==
    (pc \notin {"parse_args", "exited"}
        /\ ~(Lookup(fs0, project_path).kind = "dir" /\ Lookup(fs0, project_path).readable))
    => pc \in {"scan", "aborted"} /\ calls = <<>>

\* C3 as stated: at most two calls of the service in a run, none repeated, and
\* a failed call ends the run.
C3_AtMostTwoCalls ==
    /\ Len(calls) <= 2
    /\ \A i \in 1..Len(calls) : ~calls[i].ok => pc = "aborted" /\ i = Len(calls)

\* C3 amended: at most three calls of the service in a run (classification,
\* documentation, new endpoint), each made at most once, and a failed call is
\* the last one and ends the run.
C3_AtMostThreeCalls ==
    /\ Len(calls) <= 3
    /\ \A i, j \in 1..Len(calls) : calls[i].kind = calls[j].kind => i = j
    /\ \A i \in 1..Len(calls) : ~calls[i].ok => pc = "aborted" /\ i = Len(calls)

C3_Witness == Len(calls) = 3 /\ \A i \in 1..3 : calls[i].ok

\* the candidates among the first n that the loader skips, in order
Skipped(n) ==
    LET Bad(p) == ~Kept(p)
    IN SelectSeq(Take(identified_api_endpoints, n), Bad)

\* the error lines of main, in order
MainErrors ==
    LET OfMain(e) == e.fn = "main"
        es == SelectSeq(log, OfMain)
    IN [i \in 1..Len(es) |-> es[i].about]

\* C4: the loading loop visits every candidate in order, logs one diagnostic
\* for each candidate it skips, lets no exception out, and hands over to the
\* documentation call.
C4_LoaderNeverAborts ==
    /\ pc = "load" =>
          /\ idx \in 1..(Len(identified_api_endpoints) + 1)
          /\ MainErrors = Skipped(idx - 1)
    /\ (Len(calls) >= 1 /\ calls[1].ok) =>
          /\ pc = "aborted" => Len(calls) >= 2
          /\ pc # "load" =>
                /\ idx = Len(identified_api_endpoints) + 1
                /\ MainErrors = Skipped(Len(identified_api_endpoints))

C4_Witness ==
    /\ pc = "document"
    /\ fs0 = TreeDenied
    /\ identified_api_endpoints = <<MissingPy, AppPy, ReadmeMd>>
    /\ MainErrors = <<MissingPy, AppPy, ReadmeMd>>

\* C5: after the loading loop the keys of file_contents are exactly the
\* candidates that end with ".py" and could be read, each once and mapped to
\* the file's content, so there are no more of them than candidates; for the
\* answer app.py, missing.py, readme.md over app.py, util.py, readme.md the
\* map holds app.py alone.
C5_ContentMapExact ==
    Loaded =>
        /\ DictKeys(file_contents) =
              {identified_api_endpoints[i] : i \in
                  {j \in 1..Len(identified_api_endpoints) : Kept(identified_api_endpoints[j])}}
        /\ \A i, j \in 1..Len(file_contents) :
              file_contents[i][1] = file_contents[j][1] => i = j
        /\ \A i \in 1..Len(file_contents) :
              file_contents[i][2] = Lookup(fs0, file_contents[i][1]).content
        /\ Len(file_contents) <= Len(identified_api_endpoints)
        /\ (fs0 = TreeFlat /\ identified_api_endpoints = <<AppPy, MissingPy, ReadmeMd>>)
              => file_contents = << <<AppPy, AppText>> >>

C5_Witness ==
    /\ pc = "document"
    /\ fs0 = TreeFlat
    /\ identified_api_endpoints = <<AppPy, MissingPy, ReadmeMd>>
    /\ file_contents = << <<AppPy, AppText>> >>

\* the regular files under the root, at any depth
RegularFilesUnderRoot ==
    {p \in DOMAIN fs0 : fs0[p].kind = "file" /\ IsAncestor(Root, p)}

\* the entries that are no directories, in the root and in the directories
\* below it that can be listed all the way down from the root
ListedEntries ==
    {p \in DOMAIN fs0 :
        /\ fs0[p].kind # "dir"
        /\ IsAncestor(Root, p)
        /\ \A d \in DOMAIN fs0 :
              (d = Root \/ IsAncestor(Root, d)) /\ IsAncestor(d, p)
                  => fs0[d].kind = "dir" /\ fs0[d].readable}

C7_EmptyProjectStillClassified ==
    (Scanned /\ fs0 = TreeEmpty) =>
        /\ filepaths = <<>>
        /\ pc # "classify" =>
              /\ Cardinality(CallsOf("identify")) = 1
              /\ calls[1].kind = "identify"
              /\ calls[1].prompt = <<"f","i","l","e"," ","p","a","t","h","s",":","\n","\n","[","]","\n","\n","O","n","l","y"," ","r","e","t","u","r","n">>
              /\ calls[1].ok =>
                    /\ identified_api_endpoints = Split(calls[1].text, <<"\n">>)
                    /\ pc = "aborted" => Len(calls) >= 2
              /\ Written => Lookup(fs, SWAGGER_FILE_FILEPATH).content = calls[2].text

C7_Witness ==
    /\ fs0 = TreeEmpty
    /\ pc = "main_returned"
    /\ Len(identified_api_endpoints) = 3
    /\ writes = <<SWAGGER_FILE_FILEPATH>>

\* C8: once the documentation call has succeeded and the file is written, it
\* holds exactly the text the call returned, and the route serves that text;
\* the run writes that one file at most once and no other file.
C8_ArtifactIsRawText ==
    /\ Len(writes) <= 1
    /\ \A i \in 1..Len(writes) : writes[i] = SWAGGER_FILE_FILEPATH
    /\ writes = <<>> => fs = fs0
    /\ \A p \in DOMAIN fs \ {SWAGGER_FILE_FILEPATH} : p \in DOMAIN fs0 /\ fs[p] = fs0[p]
    /\ Written <=> writes # <<>>
    /\ Written =>
          /\ calls[2].kind = "documentation" /\ calls[2].ok
          /\ Lookup(fs, SWAGGER_FILE_FILEPATH).kind = "file"
          /\ Lookup(fs, SWAGGER_FILE_FILEPATH).content = calls[2].text
    /\ served # <<>> => served[1] = calls[2].text

C8_Witness ==
    /\ fs0 = TreeNested
    /\ served = <<<<"o","p","e","n","a","p","i",":"," ","3",".","0",".","0","\n","p","a","t","h","s",":"," ","{","}","\n">>>>

\* C9: the documentation prompt embeds the whole of str(file_contents); the
\* new-endpoint prompt embeds str(filepaths) whole, the description, and the
\* first floor(n/2) characters of str(file_contents), on every run.
C9_PromptsEmbedContents ==
    \A i \in 1..Len(calls) :
        /\ calls[i].kind = "documentation" =>
              calls[i].prompt = <<"f","i","l","e"," ","c","o","n","t","e","n","t","s",":","\n">> \o StrDict(file_contents) \o <<"\n">>
        /\ calls[i].kind = "new_endpoint" =>
              calls[i].prompt =
                  <<"-"," ","P","r","o","j","e","c","t"," ","s","t","r","u","c","t","u","r","e",":"," ">> \o StrList(filepaths)
                  \o <<"\n","-"," ","F","u","n","c","t","i","o","n","a","l","i","t","y"," ","d","e","s","c","r","i","p","t","i","o","n",":"," ">> \o new_endpoint_description
                  \o <<"\n","-"," ","P","r","o","j","e","c","t"," ","f","i","l","e"," ","c","o","n","t","e","n","t","s",":"," ">>
                  \o Take(StrDict(file_contents), Len(StrDict(file_contents)) \div 2)
                  \o <<"\n">>

\* C10: the server runs only after main() has returned: all three calls have
\* succeeded and the artifact was written in this run; a run that has raised
\* or exited stays so, artifact written or not.
C10_ServerOnlyAfterMain ==
    /\ [](pc = "serving" =>
             /\ Len(calls) = 3
             /\ \A i \in 1..3 : calls[i].ok
             /\ writes = <<SWAGGER_FILE_FILEPATH>>
             /\ ~ServiceErrorLogged)
    /\ [][(pc \in {"aborted", "exited"}) => (pc' = pc)]_vars

C10_Witness == pc = "serving" /\ served # <<>>

====
